---- MODULE Spec2Model ----
(***************************************************************************)
(* State-machine model of the RealTime-CodeAi VS Code extension.           *)
(*                                                                         *)
(* The extension is a set of independent objects created in activate():    *)
(*   DocDiffer        (snapshot of scraped documentation, diffing)         *)
(*   StorageManager   (user-data.json: plan and daily usage counters)      *)
(*   PaywallManager   (quota check on top of StorageManager)               *)
(*   ContextExtractor (two insertion-ordered Map caches)                   *)
(*   WebviewPanel     (chat panel, isProcessing flag, message history)     *)
(*   ErrorHandler / TelemetryService (error classification, logging)       *)
(* Each object has its own specification below (SpecDocs, SpecStorage,     *)
(* SpecCache, SpecPanel, SpecError); all of them share one variable        *)
(* tuple, and a specification leaves the other objects' variables alone.   *)
(*                                                                         *)
(* Asynchronous functions are cut at their await points: every action is   *)
(* the synchronous run of code between two awaits, and actions of          *)
(* different calls interleave freely.  File writes are taken to succeed;   *)
(* file reads and network fetches may fail.  The ContextExtractor model     *)
(* follows one findRelevantDocs / getContextAndDocs call at a time, and    *)
(* the WebviewPanel model covers the chat handler, handleAiQuery.          *)
(***************************************************************************)
EXTENDS Integers, Sequences, FiniteSets, TLC

VARIABLES
  \* ---- DocDiffer (src/unnamed/part_000)
  docsFile,       \* content of the file at docsPath, or NoFile
  previousDocs,   \* this.previousDocs
  procPc,         \* position of the processDocs call: "idle" | "fetching"
  procSources,    \* sourcesToProcess of the running processDocs call
  fetched,        \* per source index: Pending, or how its fetchLatestDocs settled
  lastResult,     \* value returned by the last processDocs call (NoResult before)
  prevBefore,     \* this.previousDocs as findDifferences saw it in the last run
  lastLatest,     \* latestDocs handed to findDifferences in the last run
  chromaDocs      \* value returned by the last getDocsForChroma call on this snapshot

docsVars == <<docsFile, previousDocs, procPc, procSources, fetched,
              lastResult, prevBefore, lastLatest, chromaDocs>>

VARIABLES
  \* ---- StorageManager (src/storage-manager.js), PaywallManager (src/unnamed/part_003)
  userFile,       \* parsed content of user-data.json
  today,          \* new Date().toISOString().split('T')[0], as a day number
  calls,          \* the asynchronous calls in flight: per slot, position and locals
  opsStarted,     \* number of calls started so far
  readFailures,   \* number of reads of user-data.json that threw so far
  resetCount,     \* per day: how often getDailyUsage took its reset branch
  allowedCount    \* per counter: the checkAndIncrementUsage calls that returned
                  \* allowed since getDailyUsage last took its reset branch

storageVars == <<userFile, today, calls, opsStarted, readFailures, resetCount,
                 allowedCount>>

VARIABLES
  \* ---- ContextExtractor (src/CHANGELOG.md, lines 131-418)
  contextQueries, \* this.cache.contextQueries: the Map's keys in iteration order
  relevantDocs,   \* this.cache.relevantDocs: the Map's keys in iteration order
  lastUpdated,    \* this.cache.lastUpdated: "null", or how Date.now() compares
                  \* with it: "fresh" (less than 5 minutes later) or "stale"
  collection,     \* this.collection is set
  query,          \* the findRelevantDocs / getContextAndDocs call in flight
  nextCtx,        \* number of distinct context cache keys seen so far
  nextQuery,      \* number of distinct query texts seen so far
  cacheOps,       \* number of single calls so far that missed the cache
  ctxAt,          \* per key of contextQueries: when it was inserted (logical clock)
  docsAt,         \* per key of relevantDocs: when it was inserted (logical clock)
  ctxClock,       \* insertions made so far into contextQueries
  docsClock,      \* insertions made so far into relevantDocs
  lastStore,      \* what the last insertion did: cache, size before, deleted keys
  docsInfo        \* the keys of relevantDocs stored less than 5 minutes ago, those
                  \* whose result comes from a collection replaced since, and
                  \* whether the collection was replaced under the call in flight

cacheVars == <<contextQueries, relevantDocs, lastUpdated, collection, query, nextCtx,
               nextQuery, cacheOps, ctxAt, docsAt, ctxClock, docsClock, lastStore,
               docsInfo>>

VARIABLES
  \* ---- WebviewPanel (src/webview-panel.js)
  panel,          \* this.panel: "none" (never created), "open", or "disposed"
                  \* (this.panel is null unless "open")
  isProcessing,   \* this.isProcessing
  messageHistory, \* this.messageHistory; each entry carries the id of its query
  posted,         \* the messages handed to this.panel.webview.postMessage, in order
  request,        \* the handleAiQuery call that is past the isProcessing test
  nextId,         \* number of handleAiQuery calls so far; the n-th call has id n
  rejected        \* ids of the calls that took the `if (this.isProcessing)` branch

panelVars == <<panel, isProcessing, messageHistory, posted, request, nextId, rejected>>

VARIABLES
  \* ---- ErrorHandler (src/documentation-service.js, lines 620-687) and
  \* ---- TelemetryService (src/telemetry-service.js)
  telemetryConfig,  \* the setting realtimeAiEditor.telemetryEnabled
  telemetryEnabled, \* TelemetryService.telemetryEnabled, the last value read
  telemetryLog,     \* the error codes written by logError, in order
  handling,         \* the handleError call waiting on `await logError(...)`
  handled,          \* what the last handleError call returned
  errorCount,       \* number of handleError calls so far
  optIn             \* the first-run prompt of activate(): globalState's
                    \* telemetryOptInShown, a prompt being open, the user having
                    \* chosen Enable (or enabled the setting), prompts shown so far

errorVars == <<telemetryConfig, telemetryEnabled, telemetryLog, handling, handled,
               errorCount, optIn>>

VARIABLES
  \* ---- the documentation refresh (src/extension.js, lines 119-200, and
  \* ---- WebviewPanel.handleRefreshDocs, src/webview-panel.js, lines 198-281)
  refresh,        \* the refresh that is waiting for processDocs, and who began it
  refreshRuns,    \* per day: the DocDiffer.processDocs runs begun by a refresh
  refreshCalls    \* number of refresh requests so far (command or webview button)

refreshVars == <<refresh, refreshRuns, refreshCalls>>

\* DocumentationService
VARIABLES
  search,           \* one combinedSearch call: its position, how each of its four
                    \* lookups settled, and the object it returned
  serviceCache,     \* this.cache: per cache key the fetch whose result is cached
                    \* (data, 0 when there is no entry) and the entry's timestamp
  serviceNow,       \* Date.now(), in milliseconds since the service was built
  pendingRequests,  \* this.pendingRequests: per cache key the fetch in flight, or 0
  fetches,          \* every fetch started so far: its cache key and whether it is done
  getCalls          \* the getDocumentation calls: position, cache key, the fetches
                    \* that were in flight for the key at the call, result

serviceVars == <<search, serviceCache, serviceNow, pendingRequests, fetches, getCalls>>

\* the chat webview's script (src/unnamed/part_002)
VARIABLES
  webview           \* state.isProcessing, the number of askAi messages sent, and
                    \* the number of posted messages its listener has handled

webviewVars == <<webview>>

\* a function wrapped by ErrorHandler.createErrorBoundary
VARIABLES
  boundary          \* one call of the wrapper: its position, the arguments of
                    \* the call and of the last invocation of fn, the number of
                    \* invocations, the last answer to a prompt, the value returned

boundaryVars == <<boundary>>

vars == <<docsVars, storageVars, cacheVars, panelVars, errorVars, refreshVars,
          serviceVars, webviewVars, boundaryVars>>

\* everything but one object's variables
notDocs == <<storageVars, cacheVars, panelVars, errorVars, refreshVars, serviceVars,
  webviewVars, boundaryVars>>
notStorage == <<docsVars, cacheVars, panelVars, errorVars, refreshVars, serviceVars,
  webviewVars, boundaryVars>>
notCache == <<docsVars, storageVars, panelVars, errorVars, refreshVars, serviceVars,
  webviewVars, boundaryVars>>
\* (a WebviewPanel handler calls into its ContextExtractor)
notPanel == <<docsVars, storageVars, errorVars, refreshVars, serviceVars,
  webviewVars, boundaryVars>>
notError == <<docsVars, storageVars, cacheVars, panelVars, refreshVars, serviceVars,
  webviewVars, boundaryVars>>
notBoundary == <<docsVars, storageVars, cacheVars, panelVars, errorVars, refreshVars,
  serviceVars, webviewVars>>
notService == <<docsVars, storageVars, cacheVars, panelVars, errorVars, refreshVars,
  webviewVars, boundaryVars>>

-----------------------------------------------------------------------------
(* Bounds *)

\* number of distinct headings a documentation page can show
MaxTitles == 1
\* number of distinct non-empty paragraph texts
MaxContent == 2
\* number of StorageManager / PaywallManager calls that may overlap
MaxCalls == 2
\* number of StorageManager / PaywallManager calls started in a run
MaxOps == 3
\* number of calendar days a run spans
MaxDay == 2
\* number of reads of user-data.json that fail in a run
MaxReadFails == 1
\* number of single ContextExtractor calls in a run that miss the cache
\* (cache hits and the calls of a burst are not counted)
MaxCacheOps == 2
\* number of handleAiQuery calls in a run
MaxQueries == 3
\* number of handleError calls in a run
MaxErrors == 2
\* number of records logEvent writes in a run
MaxEvents == 2
\* number of first-run prompts shown in a run
MaxPrompts == 2
\* number of calls of a wrapped function in a run
MaxBoundaryCalls == 2
\* number of getDocumentation calls in a run
MaxGets == 3
\* number of fetches getDocumentation starts in a run
MaxFetches == 3
\* length of a DocumentationService run, in cacheTTL periods
MaxPeriods == 2
\* number of refresh requests in a run
MaxRefreshCalls == 2

-----------------------------------------------------------------------------
(* DocDiffer *)

\* the file at docsPath does not exist (or cannot be read or parsed)
NoFile == [exists |-> FALSE]
\* no processDocs call has returned yet
NoResult == [returned |-> FALSE]
\* a fetchLatestDocs promise that has not settled
Pending == [settled |-> FALSE]

\* this.docSources: the two configured sources, in order
docSources ==
  << [name |-> "Next.js Documentation", type |-> "nextjs"],
     [name |-> "Tailwind CSS Documentation", type |-> "tailwind"] >>

SourceIdx == 1..Len(docSources)

Titles == 1..MaxTitles
\* 0 stands for the empty string (no paragraph follows the heading)
PageContents == 0..MaxContent

\* the snapshot key `${source.type}:${title}`
DocKey(type, title) == <<type, title>>

EmptyDocs == <<>>

\* { ...a, ...b }
Spread(a, b) ==
  [k \in (DOMAIN a) \cup (DOMAIN b) |-> IF k \in DOMAIN b THEN b[k] ELSE a[k]]

\* a scraped page: headings (a set of titles) with the paragraph text under each
Pages == UNION { [ts -> PageContents] : ts \in SUBSET Titles }

\* fetchLatestDocs(source) once axios.get has returned `page`:
\* one entry per heading that has both a title and content
ScrapePage(source, page) ==
  LET kept == { t \in DOMAIN page : page[t] # 0 }
  IN [k \in { DocKey(source.type, t) : t \in kept } |->
        [title |-> k[2], content |-> page[k[2]],
         source |-> source.name, type |-> source.type]]

\* JSON.stringify(mergedDocs): the entries as text, one after the other
RECURSIVE SerializeFrom(_, _)
SerializeFrom(docs, keys) ==
  IF keys = {} THEN << >>
  ELSE LET k == CHOOSE x \in keys : TRUE
       IN << [key |-> k, value |-> docs[k]] >> \o SerializeFrom(docs, keys \ {k})

JSONstringify(docs) == SerializeFrom(docs, DOMAIN docs)

\* JSON.parse(text): the object holding the text's entries
JSONparse(text) ==
  LET keys == { text[i].key : i \in 1..Len(text) }
  IN [k \in keys |->
        (CHOOSE e \in { text[i] : i \in 1..Len(text) } : e.key = k).value]

\* loadPreviousDocs(): the parsed file, {} when reading or parsing throws
loadPreviousDocs(file) ==
  IF ~file.exists THEN EmptyDocs ELSE JSONparse(file.text)

\* findDifferences with the content comparison left out: every key present in
\* both snapshots is reported as updated
findDifferencesNoCompare(prev, latestDocs) ==
  LET newDocs == [k \in (DOMAIN latestDocs) \ (DOMAIN prev) |-> latestDocs[k]]
      updatedDocs ==
        [k \in (DOMAIN latestDocs) \cap (DOMAIN prev) |->
           [doc |-> latestDocs[k], previousContent |-> prev[k].content]]
      removedDocs == [k \in (DOMAIN prev) \ (DOMAIN latestDocs) |-> prev[k]]
  IN [newDocs |-> newDocs, updatedDocs |-> updatedDocs, removedDocs |-> removedDocs,
      newCount |-> Cardinality(DOMAIN newDocs),
      updatedCount |-> Cardinality(DOMAIN updatedDocs),
      removedCount |-> Cardinality(DOMAIN removedDocs)]

\* findDifferences(latestDocs) against this.previousDocs = prev
findDifferences(prev, latestDocs) ==
  LET isNew(k) == k \notin DOMAIN prev                    \* !existingDoc
      isUpdated(k) == k \in DOMAIN prev
                      /\ prev[k].content # latestDocs[k].content
      newDocs == [k \in { x \in DOMAIN latestDocs : isNew(x) } |-> latestDocs[k]]
      updatedDocs ==
        [k \in { x \in DOMAIN latestDocs : isUpdated(x) } |->
           [doc |-> latestDocs[k], previousContent |-> prev[k].content]]
      removedDocs ==
        [k \in { x \in DOMAIN prev : x \notin DOMAIN latestDocs } |-> prev[k]]
  IN [newDocs |-> newDocs, updatedDocs |-> updatedDocs, removedDocs |-> removedDocs,
      newCount |-> Cardinality(DOMAIN newDocs),
      updatedCount |-> Cardinality(DOMAIN updatedDocs),
      removedCount |-> Cardinality(DOMAIN removedDocs)]

\* mergedDocs without the loop that deletes the removed docs
MergeDocsKeepRemoved(prev, latestDocs, differences) == Spread(prev, latestDocs)

\* mergedDocs of processDocs: previous docs minus the removed ones, then every
\* latest entry assigned over it
MergeDocs(prev, latestDocs, differences) ==
  LET kept == [k \in (DOMAIN prev) \ (DOMAIN differences.removedDocs) |-> prev[k]]
  IN Spread(kept, latestDocs)

\* getDocsForChroma(): `${doc.type.toUpperCase()}: ${doc.title}` -> doc.content
toUpperCase(s) ==
  CASE s = "nextjs" -> "NEXTJS"
    [] s = "tailwind" -> "TAILWIND"
    [] OTHER -> s

\* getDocsForChroma keyed by the snapshot key instead of the formatted title
getDocsForChromaRawKey(docs) == [k \in DOMAIN docs |-> docs[k].content]

getDocsForChroma(docs) ==
  LET formattedTitle(k) == <<toUpperCase(docs[k].type), docs[k].title>>
      titles == { formattedTitle(k) : k \in DOMAIN docs }
      \* a later entry with the same formatted title overwrites an earlier one
      lastWith(ft) == CHOOSE k \in DOMAIN docs : formattedTitle(k) = ft
  IN [ft \in titles |-> docs[lastWith(ft)].content]

DocsInit ==
  /\ docsFile = NoFile
  /\ previousDocs = loadPreviousDocs(NoFile)
  /\ procPc = "idle"
  /\ procSources = {}
  /\ fetched = [i \in SourceIdx |-> Pending]
  /\ lastResult = NoResult
  /\ prevBefore = EmptyDocs
  /\ lastLatest = EmptyDocs
  /\ chromaDocs = NoResult

\* new DocDiffer(docsPath): the constructor reloads the snapshot from the file
Construct ==
  /\ procPc = "idle"
  /\ previousDocs' = loadPreviousDocs(docsFile)
  /\ chromaDocs' = NoResult
  /\ UNCHANGED <<docsFile, procPc, procSources, fetched, lastResult,
                 prevBefore, lastLatest>>
  /\ UNCHANGED notDocs

\* processDocs(sourceTypes) up to `await Promise.all(fetchPromises)`
processDocs(sourceTypes) ==
  /\ procPc = "idle"
  /\ LET sourcesToProcess ==
           IF sourceTypes # {}
           THEN { i \in SourceIdx : docSources[i].type \in sourceTypes }
           ELSE SourceIdx
     IN /\ procSources' = sourcesToProcess
        /\ IF sourcesToProcess = {}
           THEN /\ lastResult' =
                     [returned |-> TRUE, success |-> FALSE,
                      error |-> "No valid documentation sources specified"]
                /\ UNCHANGED procPc
           ELSE /\ procPc' = "fetching"
                /\ lastResult' = NoResult
  /\ fetched' = [i \in SourceIdx |-> Pending]
  /\ prevBefore' = EmptyDocs
  /\ lastLatest' = EmptyDocs
  /\ UNCHANGED <<docsFile, previousDocs, chromaDocs>>

\* processDocs called on its own
ProcessDocsBegin(sourceTypes) ==
  /\ processDocs(sourceTypes)
  /\ UNCHANGED notDocs

\* fetchLatestDocs(source) settles: the page was scraped, or axios.get threw and
\* the catch returned {}
FetchLatestDocs(i, ok, page) ==
  /\ procPc = "fetching"
  /\ i \in procSources
  /\ ~fetched[i].settled
  /\ fetched' = [fetched EXCEPT ![i] =
                   [settled |-> TRUE, failed |-> ~ok,
                    value |-> IF ok THEN ScrapePage(docSources[i], page)
                              ELSE EmptyDocs]]
  /\ UNCHANGED <<docsFile, previousDocs, procPc, procSources, lastResult,
                 prevBefore, lastLatest, chromaDocs>>
  /\ UNCHANGED notDocs

RECURSIVE MergeResultsFrom(_, _)
MergeResultsFrom(results, i) ==
  IF i = 0 THEN EmptyDocs
  ELSE Spread(MergeResultsFrom(results, i - 1), results[i])

\* the merge loop assigning instead of spreading: latestDocs = { ...result }
MergeResultsOverwrite(results, n) == results[n]

\* docResults.forEach(result => latestDocs = { ...latestDocs, ...result })
MergeResults(results, n) == MergeResultsFrom(results, n)

\* processDocs after Promise.all resolved: merge, diff, write the file, return
ProcessDocsFinish ==
  /\ procPc = "fetching"
  /\ \A i \in procSources : fetched[i].settled
  /\ LET docResults == [i \in SourceIdx |->
                          IF i \in procSources THEN fetched[i].value ELSE EmptyDocs]
         latestDocs == MergeResults(docResults, Len(docSources))
         differences == findDifferences(previousDocs, latestDocs)
         mergedDocs == MergeDocs(previousDocs, latestDocs, differences)
     IN /\ docsFile' = [exists |-> TRUE, text |-> JSONstringify(mergedDocs)]
        /\ previousDocs' = mergedDocs
        /\ lastResult' = [returned |-> TRUE, success |-> TRUE,
                          latestDocs |-> mergedDocs,
                          differences |-> differences,
                          processedSources |->
                            { docSources[i].name : i \in procSources }]
        /\ prevBefore' = previousDocs
        /\ lastLatest' = latestDocs
  /\ procPc' = "idle"
  /\ chromaDocs' = NoResult
  /\ UNCHANGED <<procSources, fetched>>
  /\ UNCHANGED notDocs

\* a caller takes getDocsForChroma() of the current snapshot
GetDocsForChroma ==
  /\ chromaDocs' = [returned |-> TRUE, docs |-> getDocsForChroma(previousDocs)]
  /\ UNCHANGED <<docsFile, previousDocs, procPc, procSources, fetched, lastResult,
                 prevBefore, lastLatest>>
  /\ UNCHANGED notDocs

\* source types a caller may pass to processDocs ("react" is not configured)
SourceTypeArgs == SUBSET {"nextjs", "tailwind", "react"}

DocsNext ==
  \/ Construct
  \/ \E sourceTypes \in SourceTypeArgs : ProcessDocsBegin(sourceTypes)
  \/ \E i \in SourceIdx, ok \in BOOLEAN, page \in Pages : FetchLatestDocs(i, ok, page)
  \/ ProcessDocsFinish
  \/ GetDocsForChroma

-----------------------------------------------------------------------------
(* StorageManager and PaywallManager *)

Plans == {"free", "pro", "team"}
Depths == {"file", "project", "workspace"}
Days == 1..MaxDay
CallSlots == 1..MaxCalls

\* the record initializeStorage writes and getUserData falls back to
DefaultUserData(date) ==
  [plan |-> "free",
   usage |-> [lastResetDate |-> date, completions |-> 0, docRefreshes |-> 0,
              contextDepth |-> "file"]]

\* getUserData(): the parsed file, or the default record when reading throws
getUserData(file, date, readFails) ==
  IF readFails THEN DefaultUserData(date) ELSE file

\* PaywallManager.usageQuotas; a limit that is not finite stands for Infinity
usageQuotas ==
  [free |-> [completionsPerDay |-> [finite |-> TRUE, n |-> 50],
             docRefreshesPerDay |-> [finite |-> TRUE, n |-> 1],
             contextDepth |-> "file"],
   pro  |-> [completionsPerDay |-> [finite |-> FALSE, n |-> 0],
             docRefreshesPerDay |-> [finite |-> TRUE, n |-> 24],
             contextDepth |-> "project"],
   team |-> [completionsPerDay |-> [finite |-> FALSE, n |-> 0],
             docRefreshesPerDay |-> [finite |-> TRUE, n |-> 24],
             contextDepth |-> "workspace"]]

\* count >= limit
AtLeast(count, limit) == limit.finite /\ count >= limit.n

\* readFileSync / JSON.parse may throw (a bounded number of times)
ReadOutcome(readFails) ==
  /\ readFails => readFailures < MaxReadFails
  /\ readFailures' = IF readFails THEN readFailures + 1 ELSE readFailures

\* a slot with no call in it
IdleCall ==
  [op |-> "none", pc |-> "idle", arg |-> "none",
   userData |-> DefaultUserData(0), daily |-> DefaultUserData(0)]

\* the free slot a new call is put in
FreeSlot(c) ==
  /\ calls[c].pc = "idle"
  /\ \A d \in CallSlots : d < c => calls[d].pc # "idle"
  /\ opsStarted < MaxOps

\* a call begins: every entry point reads the file before its first await
\* (setUserPlan, setContextDepth, incrementDailyUsage: getUserData();
\*  getDailyUsage: getUserData(); checkAndIncrementUsage: getUserPlan())
Begin(c, op, arg, pc, readFails) ==
  /\ ReadOutcome(readFails)
  /\ calls' = [calls EXCEPT ![c] =
       [op |-> op, pc |-> pc, arg |-> arg,
        userData |-> getUserData(userFile, today, readFails),
        daily |-> IF op = "getDailyUsage"
                  THEN getUserData(userFile, today, readFails)
                  ELSE DefaultUserData(0)]]
  /\ opsStarted' = opsStarted + 1
  /\ UNCHANGED <<userFile, today, resetCount, allowedCount>>
  /\ UNCHANGED notStorage

\* no checkAndIncrementUsage call has returned allowed since the last reset
NoneAllowed == [completions |-> 0, docRefreshes |-> 0]

StorageInit ==
  /\ userFile = DefaultUserData(1)
  /\ today = 1
  /\ calls = [c \in CallSlots |-> IdleCall]
  /\ opsStarted = 0
  /\ readFailures = 0
  /\ resetCount = [d \in Days |-> 0]
  /\ allowedCount = NoneAllowed

\* midnight (UTC) passes
NextDay ==
  /\ today < MaxDay
  /\ today' = today + 1
  /\ UNCHANGED <<userFile, calls, opsStarted, readFailures, resetCount, allowedCount>>
  /\ UNCHANGED notStorage

\* setUserPlan(plan): const userData = await this.getUserData()
SetUserPlanBegin(c, plan, readFails) ==
  /\ FreeSlot(c)
  /\ Begin(c, "setUserPlan", plan, "sup_save", readFails)

\* setUserPlan: userData.plan = plan; saveUserData(userData)
SetUserPlanSave(c) ==
  /\ calls[c].pc = "sup_save"
  /\ userFile' = [calls[c].userData EXCEPT !.plan = calls[c].arg]
  /\ calls' = [calls EXCEPT ![c] = IdleCall]
  /\ UNCHANGED <<today, opsStarted, readFailures, resetCount, allowedCount>>
  /\ UNCHANGED notStorage

\* setContextDepth(depth): const userData = await this.getUserData()
SetContextDepthBegin(c, depth, readFails) ==
  /\ FreeSlot(c)
  /\ Begin(c, "setContextDepth", depth, "scd_save", readFails)

\* setContextDepth: userData.usage.contextDepth = depth; saveUserData(userData)
SetContextDepthSave(c) ==
  /\ calls[c].pc = "scd_save"
  /\ userFile' = [calls[c].userData EXCEPT !.usage.contextDepth = calls[c].arg]
  /\ calls' = [calls EXCEPT ![c] = IdleCall]
  /\ UNCHANGED <<today, opsStarted, readFailures, resetCount, allowedCount>>
  /\ UNCHANGED notStorage

\* getDailyUsage after its await: the usage it returns, reset when the record's
\* lastResetDate is not today
ResetIfNewDay(userData, date) ==
  IF userData.usage.lastResetDate # date
  THEN [userData EXCEPT !.usage =
          [lastResetDate |-> date, completions |-> 0, docRefreshes |-> 0,
           contextDepth |-> userData.usage.contextDepth]]
  ELSE userData

\* getDailyUsage after `await this.getUserData()` on the record `daily` of call c:
\* it saves the record only in the reset branch
DailyUsageStep(c, pcNext) ==
  LET read == calls[c].daily
      checked == ResetIfNewDay(read, today)
      resets == read.usage.lastResetDate # today
  IN /\ userFile' = IF resets THEN checked ELSE userFile
     /\ resetCount' = IF resets THEN [resetCount EXCEPT ![today] = @ + 1]
                      ELSE resetCount
     /\ calls' = [calls EXCEPT ![c] =
                    IF pcNext = "idle" THEN IdleCall
                    ELSE [@ EXCEPT !.pc = pcNext, !.daily = checked]]
     /\ allowedCount' = IF resets THEN NoneAllowed ELSE allowedCount
     /\ UNCHANGED <<today, opsStarted, readFailures>>
     /\ UNCHANGED notStorage

\* getDailyUsage(): const userData = await this.getUserData()
GetDailyUsageBegin(c, readFails) ==
  /\ FreeSlot(c)
  /\ Begin(c, "getDailyUsage", "none", "gdu_check", readFails)

\* getDailyUsage: compare the date, reset and save, return userData.usage
GetDailyUsageCheck(c) ==
  /\ calls[c].pc = "gdu_check"
  /\ DailyUsageStep(c, "idle")

\* incrementDailyUsage(feature): const userData = await this.getUserData()
IncrementDailyUsageBegin(c, feature, readFails) ==
  /\ FreeSlot(c)
  /\ Begin(c, "incrementDailyUsage", feature, "idu_call", readFails)

\* incrementDailyUsage: const usage = await this.getDailyUsage() -- the call reads
\* the file again before its own await
IncrementCallDaily(c, readFails) ==
  /\ calls[c].pc = "idu_call"
  /\ ReadOutcome(readFails)
  /\ calls' = [calls EXCEPT ![c].pc = "idu_check",
                            ![c].daily = getUserData(userFile, today, readFails)]
  /\ UNCHANGED <<userFile, today, opsStarted, resetCount, allowedCount>>
  /\ UNCHANGED notStorage

\* the getDailyUsage called by incrementDailyUsage resumes
IncrementDailyCheck(c) ==
  /\ calls[c].pc = "idu_check"
  /\ DailyUsageStep(c, "idu_save")

\* usage with the counter of `feature` incremented
Incremented(usage, feature) ==
  CASE feature = "completions" -> [usage EXCEPT !.completions = @ + 1]
    [] feature = "docRefreshes" -> [usage EXCEPT !.docRefreshes = @ + 1]
    [] OTHER -> usage

\* incrementDailyUsage: count, userData.usage = usage, saveUserData(userData)
IncrementSave(c) ==
  /\ calls[c].pc = "idu_save"
  /\ userFile' = [calls[c].userData EXCEPT
                    !.usage = Incremented(calls[c].daily.usage, calls[c].arg)]
  /\ calls' = [calls EXCEPT ![c] = IdleCall]
  /\ allowedCount' = IF calls[c].op = "checkAndIncrementUsage"
                     THEN Incremented(allowedCount, calls[c].arg)
                     ELSE allowedCount
  /\ UNCHANGED <<today, opsStarted, readFailures, resetCount>>
  /\ UNCHANGED notStorage

\* checkAndIncrementUsage(feature): const userPlan = await getUserPlan()
CheckAndIncrementBegin(c, feature, readFails) ==
  /\ FreeSlot(c)
  /\ Begin(c, "checkAndIncrementUsage", feature, "ciu_plan", readFails)

\* checkAndIncrementUsage: userPlan is returned; const dailyUsage = await
\* getDailyUsage() reads the file
CheckCallDaily(c, readFails) ==
  /\ calls[c].pc = "ciu_plan"
  /\ ReadOutcome(readFails)
  /\ calls' = [calls EXCEPT ![c].pc = "ciu_check",
                            ![c].daily = getUserData(userFile, today, readFails)]
  /\ UNCHANGED <<userFile, today, opsStarted, resetCount, allowedCount>>
  /\ UNCHANGED notStorage

\* the getDailyUsage called by checkAndIncrementUsage resumes
CheckDailyCheck(c) ==
  /\ calls[c].pc = "ciu_check"
  /\ DailyUsageStep(c, "ciu_quota")

\* the quota test of checkAndIncrementUsage: TRUE when the call is denied
QuotaExceeded(feature, userPlan, dailyUsage) ==
  CASE feature = "completion" ->
         AtLeast(dailyUsage.completions, usageQuotas[userPlan].completionsPerDay)
    [] feature = "docRefresh" ->
         AtLeast(dailyUsage.docRefreshes, usageQuotas[userPlan].docRefreshesPerDay)
    [] feature = "contextDepth" ->
         /\ usageQuotas[userPlan].contextDepth = "file"
         /\ dailyUsage.contextDepth \in {"project", "workspace"}
    [] OTHER -> FALSE

\* the counter incrementDailyUsage is asked to count for a feature
CounterOf(feature) ==
  CASE feature = "completion" -> "completions"
    [] feature = "docRefresh" -> "docRefreshes"
    [] OTHER -> "none"

\* checkAndIncrementUsage: test the quota; return, or call incrementDailyUsage,
\* which reads the file before its first await
CheckQuota(c, readFails) ==
  /\ calls[c].pc = "ciu_quota"
  /\ LET feature == calls[c].arg
         userPlan == calls[c].userData.plan
         dailyUsage == calls[c].daily.usage
     IN IF QuotaExceeded(feature, userPlan, dailyUsage) \/ CounterOf(feature) = "none"
        THEN /\ ~readFails
             /\ calls' = [calls EXCEPT ![c] = IdleCall]
             /\ UNCHANGED readFailures
        ELSE /\ ReadOutcome(readFails)
             /\ calls' = [calls EXCEPT
                            ![c].pc = "idu_call",
                            ![c].arg = CounterOf(feature),
                            ![c].userData = getUserData(userFile, today, readFails)]
  /\ UNCHANGED <<userFile, today, opsStarted, resetCount, allowedCount>>
  /\ UNCHANGED notStorage

\* 49 calls of checkAndIncrementUsage('completion'), one after the other with no
\* other call in flight, on the first day of the free plan: each one is below the
\* quota, is allowed and counts one completion
CompletionsBurst ==
  /\ \A c \in CallSlots : calls[c].pc = "idle"
  /\ userFile = DefaultUserData(today)
  /\ allowedCount = NoneAllowed
  /\ LET n == usageQuotas.free.completionsPerDay.n - 1
     IN /\ userFile' = [userFile EXCEPT !.usage.completions = n]
        /\ allowedCount' = [allowedCount EXCEPT !.completions = n]
  /\ UNCHANGED <<today, calls, opsStarted, readFailures, resetCount>>
  /\ UNCHANGED notStorage

\* the calls the extension makes: checkAndIncrementUsage from its commands and
\* from the inline completion provider (nothing calls setUserPlan)
PaywallNext ==
  \/ NextDay
  \/ CompletionsBurst
  \/ \E c \in CallSlots, feature \in {"completion", "docRefresh"}, f \in BOOLEAN :
       CheckAndIncrementBegin(c, feature, f)
  \/ \E c \in CallSlots, f \in BOOLEAN : CheckCallDaily(c, f)
  \/ \E c \in CallSlots : CheckDailyCheck(c)
  \/ \E c \in CallSlots, f \in BOOLEAN : CheckQuota(c, f)
  \/ \E c \in CallSlots, f \in BOOLEAN : IncrementCallDaily(c, f)
  \/ \E c \in CallSlots : IncrementDailyCheck(c)
  \/ \E c \in CallSlots : IncrementSave(c)

StorageNext ==
  \/ NextDay
  \/ \E c \in CallSlots, readFails \in BOOLEAN :
       \/ \E plan \in Plans : SetUserPlanBegin(c, plan, readFails)
       \/ \E depth \in Depths : SetContextDepthBegin(c, depth, readFails)
       \/ GetDailyUsageBegin(c, readFails)
       \/ \E feature \in {"completions", "docRefreshes"} :
            IncrementDailyUsageBegin(c, feature, readFails)
       \/ \E feature \in {"completion", "docRefresh", "contextDepth"} :
            CheckAndIncrementBegin(c, feature, readFails)
       \/ IncrementCallDaily(c, readFails)
       \/ CheckCallDaily(c, readFails)
       \/ CheckQuota(c, readFails)
  \/ \E c \in CallSlots :
       \/ SetUserPlanSave(c)
       \/ SetContextDepthSave(c)
       \/ GetDailyUsageCheck(c)
       \/ IncrementDailyCheck(c)
       \/ IncrementSave(c)
       \/ CheckDailyCheck(c)


-----------------------------------------------------------------------------
(* ContextExtractor *)

\* `this.cache.contextQueries.size > 50`
ContextCacheLimit == 50
\* `this.cache.relevantDocs.size > 30`
DocsCacheLimit == 30

Range(m) == { m[i] : i \in 1..Len(m) }

\* Map.prototype.set: a new key goes last, a present key keeps its place
MapSet(m, k) == IF k \in Range(m) THEN m ELSE Append(m, k)

\* Map.prototype.delete
MapDelete(m, k) == SelectSeq(m, LAMBDA x : x # k)

\* the last key in iteration order
NewestKey(m) == m[Len(m)]

\* the last key taken for the oldest one
OldestKeyIsLast(m) == m[Len(m)]

\* map.keys().next().value
OldestKey(m) == Head(m)

\* `map.size > limit`
OverLimit(m, limit) == Len(m) > limit

\* if (map.size > limit) { map.delete(oldestKey) }
CacheEvict(m, limit) == IF OverLimit(m, limit) THEN MapDelete(m, OldestKey(m)) ELSE m

\* if (map.size > limit) { ... }  map.set(key, result)
CacheStore(m, k, limit) == MapSet(CacheEvict(m, limit), k)

\* the insertion times after a store: a key that is not in the map when
\* map.set runs gets the next clock value, the others keep theirs
StampStore(at, m, k, limit, clock) ==
  [x \in Range(CacheStore(m, k, limit)) |->
     IF x \in Range(CacheEvict(m, limit)) THEN at[x] ELSE clock + 1]

\* the record of a store, for the properties: the size the store found, the keys
\* gone before map.set ran, and the keys that had been in the map the longest
StoreRecord(cache, at, m, limit) ==
  [cache |-> cache, sizeBefore |-> Len(m),
   deleted |-> Range(m) \ Range(CacheEvict(m, limit)),
   earliest |-> { x \in Range(m) : \A y \in Range(m) : at[x] <= at[y] }]

NoStore == [cache |-> "none", sizeBefore |-> 0, deleted |-> {}, earliest |-> {}]

IdleQuery == [pc |-> "idle", q |-> 0, combined |-> FALSE]

PlainKey(q) == <<"plain", q>>          \* `${query.substring(0, 100)}:${maxResults}`
CombinedKey(q) == <<"combined", q>>    \* `combined:${query.substring(0, 100)}:${maxResults}`

CacheInit ==
  /\ contextQueries = << >>
  /\ relevantDocs = << >>
  /\ lastUpdated = "null"
  /\ collection = FALSE
  /\ query = IdleQuery
  /\ nextCtx = 0
  /\ nextQuery = 0
  /\ cacheOps = 0
  /\ ctxAt = << >>
  /\ docsAt = << >>
  /\ ctxClock = 0
  /\ docsClock = 0
  /\ lastStore = NoStore
  /\ docsInfo = [young |-> {}, fromOld |-> {}, queryOld |-> FALSE]

\* one more single call misses the cache, if `miss`
CountOp(miss) ==
  IF miss THEN cacheOps < MaxCacheOps /\ cacheOps' = cacheOps + 1
  ELSE UNCHANGED cacheOps

\* extractActiveEditorContext() has to build the context: an editor is active
\* and its state is not cached
ContextMiss(editor) == editor # 0 /\ editor \notin Range(contextQueries)

\* extractActiveEditorContext() for the editor state with cache key `editor`
\* (0: no active editor): the effect on contextQueries and its bookkeeping
ExtractContext(editor) ==
  IF ~ContextMiss(editor)
  THEN UNCHANGED <<contextQueries, ctxAt, nextCtx, ctxClock, lastStore>>
  ELSE /\ contextQueries' = CacheStore(contextQueries, editor, ContextCacheLimit)
       /\ ctxAt' = StampStore(ctxAt, contextQueries, editor, ContextCacheLimit, ctxClock)
       /\ ctxClock' = ctxClock + 1
       /\ lastStore' = StoreRecord("ctx", ctxAt, contextQueries, ContextCacheLimit)
       /\ nextCtx' = IF editor > nextCtx THEN editor ELSE nextCtx

\* the editor states tried: none, one never seen, the most recently cached one
EditorStates == {"none", "new", "newest"}

\* the cache key of an editor state (0: no active editor)
EditorKey(e) ==
  IF e = "none" THEN 0
  ELSE IF e = "new" \/ contextQueries = << >> THEN nextCtx + 1
  ELSE NewestKey(contextQueries)

\* the query texts tried: one never seen, those of the oldest and newest cached key
QueryTexts == {"new", "oldest", "newest"}

QueryText(t) ==
  IF t = "new" \/ relevantDocs = << >> THEN nextQuery + 1
  ELSE IF t = "oldest" THEN OldestKey(relevantDocs)[2]
  ELSE NewestKey(relevantDocs)[2]

\* store `key` in relevantDocs, with the bookkeeping
StoreDocs(key) ==
  /\ relevantDocs' = CacheStore(relevantDocs, key, DocsCacheLimit)
  /\ docsAt' = StampStore(docsAt, relevantDocs, key, DocsCacheLimit, docsClock)
  /\ docsClock' = docsClock + 1
  /\ lastStore' = StoreRecord("docs", docsAt, relevantDocs, DocsCacheLimit)
  /\ LET old == docsInfo.queryOld \/ (key[1] = "combined" /\ PlainKey(key[2]) \in docsInfo.fromOld)
     IN docsInfo' = [young |-> (docsInfo.young \cup {key}) \cap Range(relevantDocs'),
                     fromOld |-> (IF old THEN docsInfo.fromOld \cup {key}
                                  ELSE docsInfo.fromOld \ {key}) \cap Range(relevantDocs'),
                     queryOld |-> docsInfo.queryOld /\ key[1] = "plain" /\ query.combined]

\* the cached result is reused: has(cacheKey) && lastUpdated && now - lastUpdated < 5 min
CacheHit(key) == key \in Range(relevantDocs) /\ lastUpdated = "fresh"

\* initializeCollection(): getCollection or createCollection succeeds, or both throw
InitializeCollection(ok) ==
  /\ ~collection
  /\ collection' = ok
  /\ UNCHANGED <<contextQueries, relevantDocs, lastUpdated, query, nextCtx, nextQuery,
                 cacheOps, ctxAt, docsAt, docsInfo, ctxClock, docsClock, lastStore>>
  /\ UNCHANGED notCache

\* extractActiveEditorContext() called on its own (it has no await)
ExtractActiveEditorContext(editor) ==
  /\ CountOp(ContextMiss(editor))
  /\ ExtractContext(editor)
  /\ UNCHANGED <<relevantDocs, docsAt, docsInfo, docsClock, lastUpdated, collection, query,
                 nextQuery>>
  /\ UNCHANGED notCache

\* the first 50 calls of extractActiveEditorContext, made in a row, each on an
\* editor state not seen before
\* (no store finds more than 49 keys, so each one only appends its key)
ExtractBurst ==
  /\ nextCtx = 0
  /\ LET n == ContextCacheLimit
         keys == [i \in 1..n |-> nextCtx + i]
     IN /\ contextQueries' = keys
        /\ ctxAt' = [k \in Range(keys) |-> ctxClock + (k - nextCtx)]
        /\ ctxClock' = ctxClock + n
        /\ nextCtx' = nextCtx + n
  /\ UNCHANGED <<relevantDocs, docsAt, docsInfo, docsClock, lastUpdated, collection, query,
                 nextQuery, cacheOps, lastStore>>
  /\ UNCHANGED notCache

\* findRelevantDocs has to ask the vector store: there is a collection (after
\* initializeCollection, if need be) and no fresh cached result
FindMiss(q, initOk) == (collection \/ initOk) /\ ~CacheHit(PlainKey(q))

\* findRelevantDocs(context) up to `await this.collection.query(...)`:
\* no collection: return []; cached and fresh: return the cached documents
FindRelevantDocs(q, initOk) ==
  /\ query.pc = "idle"
  /\ collection' = (collection \/ initOk)
  /\ query' = IF FindMiss(q, initOk)
              THEN [pc |-> "querying", q |-> q, combined |-> FALSE]
              ELSE IdleQuery
  /\ nextQuery' = IF FindMiss(q, initOk) /\ q > nextQuery THEN q ELSE nextQuery

\* findRelevantDocs called on its own
FindRelevantDocsBegin(q, initOk) ==
  /\ CountOp(FindMiss(q, initOk))
  /\ FindRelevantDocs(q, initOk)
  /\ UNCHANGED <<contextQueries, relevantDocs, lastUpdated, nextCtx, ctxAt, docsAt, docsInfo,
                 ctxClock, docsClock, lastStore>>
  /\ UNCHANGED notCache

\* the first 30 calls of findRelevantDocs, made in a row, each with a query text
\* not seen before and each answered by the vector store
\* (no store finds more than 29 keys, so each one only appends its key)
FindBurst ==
  /\ nextQuery = 0
  /\ query.pc = "idle"
  /\ collection
  /\ LET n == DocsCacheLimit
         keys == [i \in 1..n |-> PlainKey(nextQuery + i)]
     IN /\ relevantDocs' = keys
        /\ docsAt' = [k \in Range(keys) |-> docsClock + (k[2] - nextQuery)]
        /\ docsInfo' = [docsInfo EXCEPT !.young = Range(keys)]
        /\ docsClock' = docsClock + n
        /\ nextQuery' = nextQuery + n
  /\ UNCHANGED <<contextQueries, ctxAt, ctxClock, lastUpdated, collection, query,
                 nextCtx, cacheOps, lastStore>>
  /\ UNCHANGED notCache

\* collection.query settles: the documents are stored under the plain key, or the
\* catch returns what is cached; a getContextAndDocs caller goes on to combine
QueryEnd(ok) ==
  /\ query.pc = "querying"
  /\ IF ok THEN StoreDocs(PlainKey(query.q))
     ELSE /\ docsInfo' = [docsInfo EXCEPT !.queryOld = FALSE]
          /\ UNCHANGED <<relevantDocs, docsAt, docsClock, lastStore>>
  /\ query' = IF query.combined THEN [query EXCEPT !.pc = "combine"] ELSE IdleQuery
  /\ UNCHANGED <<contextQueries, ctxAt, ctxClock, lastUpdated, collection, nextCtx,
                 nextQuery, cacheOps>>
  /\ UNCHANGED notCache

\* getContextAndDocs() up to `await this.findRelevantDocs(context, maxResults)`,
\* and the part of findRelevantDocs before its own await
GetContextAndDocsBegin(editor, q, initOk) ==
  /\ query.pc = "idle"
  /\ ExtractContext(editor)
  /\ IF editor = 0 \/ CacheHit(CombinedKey(q))
     THEN /\ CountOp(ContextMiss(editor))
          /\ UNCHANGED <<collection, query, nextQuery>>
     ELSE /\ CountOp(TRUE)
          /\ collection' = (collection \/ initOk)
          /\ query' = [pc |-> IF collection' /\ ~CacheHit(PlainKey(q))
                              THEN "querying" ELSE "combine",
                       q |-> q, combined |-> TRUE]
          /\ nextQuery' = IF q > nextQuery THEN q ELSE nextQuery
  /\ UNCHANGED <<relevantDocs, docsAt, docsInfo, docsClock, lastUpdated>>
  /\ UNCHANGED notCache

\* getContextAndDocs after findRelevantDocs returned: cache the combined result
Combine ==
  /\ query.pc = "combine"
  /\ StoreDocs(CombinedKey(query.q))
  /\ query' = IdleQuery
  /\ UNCHANGED <<contextQueries, ctxAt, ctxClock, lastUpdated, collection, nextCtx,
                 nextQuery, cacheOps>>
  /\ UNCHANGED notCache

\* updateCollection(docsData): delete and recreate the collection, then clear
\* both caches and set lastUpdated; a throwing delete leaves the caches alone
updateCollection(ok) ==
  /\ collection
  /\ IF ok
     THEN /\ relevantDocs' = << >>
          /\ contextQueries' = << >>
          /\ docsAt' = << >>
          /\ ctxAt' = << >>
          /\ lastUpdated' = "fresh"
          /\ docsInfo' = [young |-> {}, fromOld |-> {}, queryOld |-> query.pc # "idle"]
     ELSE UNCHANGED <<relevantDocs, contextQueries, docsAt, docsInfo, ctxAt, lastUpdated>>
  /\ UNCHANGED <<collection, query, nextCtx, nextQuery, cacheOps, ctxClock, docsClock,
                 lastStore>>

\* updateCollection called on its own
UpdateCollection(ok) ==
  /\ updateCollection(ok)
  /\ UNCHANGED notCache

\* five minutes pass: lastUpdated and every cached result are that much older
CacheExpires ==
  /\ lastUpdated = "fresh" \/ docsInfo.young # {}
  /\ lastUpdated' = IF lastUpdated = "fresh" THEN "stale" ELSE lastUpdated
  /\ docsInfo' = [docsInfo EXCEPT !.young = {}]
  /\ UNCHANGED <<contextQueries, relevantDocs, collection, query, nextCtx, nextQuery,
                 cacheOps, ctxAt, docsAt, ctxClock, docsClock, lastStore>>
  /\ UNCHANGED notCache

CacheNext ==
  \/ \E ok \in BOOLEAN : InitializeCollection(ok)
  \/ \E e \in EditorStates : ExtractActiveEditorContext(EditorKey(e))
  \/ ExtractBurst
  \/ \E t \in QueryTexts, initOk \in BOOLEAN :
       FindRelevantDocsBegin(QueryText(t), initOk)
  \/ FindBurst
  \/ \E ok \in BOOLEAN : QueryEnd(ok)
  \/ \E e \in EditorStates, t \in QueryTexts, initOk \in BOOLEAN :
       GetContextAndDocsBegin(EditorKey(e), QueryText(t), initOk)
  \/ Combine
  \/ \E ok \in BOOLEAN : UpdateCollection(ok)
  \/ CacheExpires

-----------------------------------------------------------------------------
(* WebviewPanel: the chat request handler *)

NoRequest == [pc |-> "none", id |-> 0, find |-> FALSE]

\* the messages posted to the webview: their status, and the query they answer
StillProcessing(id) == [status |-> "info", id |-> id]
ProcessingQuery(id) == [status |-> "processing", id |-> id]
Complete(id) == [status |-> "complete", id |-> id]
ErrorResponse(id) == [status |-> "error", id |-> id]

PanelInit ==
  /\ panel = "none"
  /\ isProcessing = FALSE
  /\ messageHistory = << >>
  /\ posted = << >>
  /\ request = NoRequest
  /\ nextId = 0
  /\ rejected = {}

\* this.panel.webview.postMessage(msg); with this.panel null the property
\* access throws a TypeError and nothing is posted
PostMessage(msg) == IF panel = "open" THEN Append(posted, msg) ELSE posted

\* createOrShow(): reveal the panel, or create it
CreateOrShow ==
  /\ panel' = "open"
  /\ UNCHANGED <<isProcessing, messageHistory, posted, request, nextId, rejected>>
  /\ UNCHANGED cacheVars
  /\ UNCHANGED notPanel

\* dispose(), from the panel's onDidDispose: this.panel = null
Dispose ==
  /\ panel = "open"
  /\ panel' = "disposed"
  /\ UNCHANGED <<isProcessing, messageHistory, posted, request, nextId, rejected>>
  /\ UNCHANGED cacheVars
  /\ UNCHANGED notPanel

\* the arguments handleAiQuery is called with: the message router passes the
\* query only; the getContextualHelp command passes the context (null without
\* an active editor) and the documents (an array) of getContextAndDocs
Arguments == {"query", "docs", "contextAndDocs"}

\* the test never succeeds
RejectsNever(flag) == FALSE

\* `if (this.isProcessing) { ...; return; }`
Rejects(flag) == flag

\* handleAiQuery(query, providedContext, providedDocs) up to its first await
HandleAiQuery(given, editor) ==
  /\ nextId < MaxQueries
  /\ nextId' = nextId + 1
  /\ IF given = "query" THEN panel = "open" ELSE panel # "none"
  /\ IF Rejects(isProcessing)
     THEN /\ posted' = PostMessage(StillProcessing(nextId'))
          /\ rejected' = rejected \cup {nextId'}
          /\ UNCHANGED <<isProcessing, messageHistory, request>>
          /\ UNCHANGED cacheVars
     ELSE /\ isProcessing' = TRUE
          /\ messageHistory' = Append(messageHistory, [role |-> "user", id |-> nextId'])
          /\ posted' = PostMessage(ProcessingQuery(nextId'))
          /\ UNCHANGED rejected
          /\ IF panel # "open"
             THEN \* the post before the try block throws: the call ends here
                  /\ UNCHANGED request
                  /\ UNCHANGED cacheVars
             ELSE IF given = "contextAndDocs"
             THEN /\ request' = [pc |-> "status", id |-> nextId', find |-> FALSE]
                  /\ UNCHANGED cacheVars
             ELSE /\ request' = [pc |-> "context", id |-> nextId',
                                 find |-> (given = "query" /\ editor # 0)]
                  /\ ExtractContext(editor)
                  /\ UNCHANGED <<relevantDocs, docsAt, docsInfo, docsClock, lastUpdated,
                                 collection, query, nextQuery, cacheOps>>
  /\ UNCHANGED panel
  /\ UNCHANGED notPanel

\* after `await extractActiveEditorContext()`: `if (!providedDocs && context)`
\* call findRelevantDocs, which runs up to its own await
AiFindDocs(q, initOk) ==
  /\ request.pc = "context"
  /\ IF request.find
     THEN /\ FindRelevantDocs(q, initOk)
          /\ request' = [request EXCEPT !.pc = "docs"]
          /\ UNCHANGED <<contextQueries, relevantDocs, lastUpdated, nextCtx, cacheOps,
                         ctxAt, docsAt, docsInfo, ctxClock, docsClock, lastStore>>
     ELSE /\ request' = [request EXCEPT !.pc = "status"]
          /\ UNCHANGED cacheVars
  /\ UNCHANGED <<panel, isProcessing, messageHistory, posted, nextId, rejected>>
  /\ UNCHANGED notPanel

\* findRelevantDocs has returned
AiDocsFound ==
  /\ request.pc = "docs"
  /\ query.pc = "idle"
  /\ request' = [request EXCEPT !.pc = "status"]
  /\ UNCHANGED <<panel, isProcessing, messageHistory, posted, nextId, rejected>>
  /\ UNCHANGED cacheVars
  /\ UNCHANGED notPanel

\* getCollectionStatus() and the rest of the try block: the response is
\* generated, stored and posted, or a throw is caught and reported; with the
\* panel gone the posts throw; `finally` clears the flag in every case
AiRespond(initOk, ok) ==
  /\ request.pc = "status"
  /\ collection' = (collection \/ initOk)
  /\ messageHistory' = IF ok THEN Append(messageHistory,
                                         [role |-> "assistant", id |-> request.id])
                       ELSE messageHistory
  /\ posted' = PostMessage(IF ok THEN Complete(request.id) ELSE ErrorResponse(request.id))
  /\ isProcessing' = FALSE
  /\ request' = NoRequest
  /\ UNCHANGED <<panel, nextId, rejected>>
  /\ UNCHANGED <<contextQueries, relevantDocs, lastUpdated, query, nextCtx, nextQuery,
                 cacheOps, ctxAt, docsAt, docsInfo, ctxClock, docsClock, lastStore>>
  /\ UNCHANGED notPanel

PanelNext ==
  \/ CreateOrShow
  \/ Dispose
  \/ \E given \in Arguments, e \in EditorStates : HandleAiQuery(given, EditorKey(e))
  \/ \E t \in QueryTexts, initOk \in BOOLEAN : AiFindDocs(QueryText(t), initOk)
  \/ AiDocsFound
  \/ \E initOk \in BOOLEAN, ok \in BOOLEAN : AiRespond(initOk, ok)
  \/ \E ok \in BOOLEAN : InitializeCollection(ok)
  \/ \E ok \in BOOLEAN : QueryEnd(ok)

-----------------------------------------------------------------------------
(* The documentation refresh: the refreshDocs command and the webview button *)

NoRefresh == [pc |-> "none", via |-> "none"]

RefreshInit ==
  /\ refresh = NoRefresh
  /\ refreshRuns = [d \in Days |-> 0]
  /\ refreshCalls = 0

\* one more refresh request; a request that gets to processDocs has to find
\* no other refresh running (one refresh is followed at a time)
RefreshRequest(runs) ==
  /\ runs => (refresh = NoRefresh /\ procPc = "idle")
  /\ refreshCalls < MaxRefreshCalls
  /\ refreshCalls' = refreshCalls + 1

\* the refreshDocs command up to `await docDiffer.processDocs()`. No other
\* storage call runs here, so checkAndIncrementUsage('docRefresh') is taken in
\* one piece, with its reads succeeding: getUserPlan, getDailyUsage (reset on a
\* new day), the quota test, incrementDailyUsage
RefreshDocsCommand ==
  /\ RefreshRequest(TRUE)
  /\ LET resets == userFile.usage.lastResetDate # today
         checked == ResetIfNewDay(userFile, today)
         denied == QuotaExceeded("docRefresh", userFile.plan, checked.usage)
         counted == IF resets THEN NoneAllowed ELSE allowedCount
     IN /\ resetCount' = IF resets THEN [resetCount EXCEPT ![today] = @ + 1]
                         ELSE resetCount
        /\ IF denied
           THEN /\ userFile' = checked
                /\ allowedCount' = counted
                /\ UNCHANGED <<docsVars, refresh, refreshRuns>>
           ELSE /\ userFile' = [checked EXCEPT
                                  !.usage = Incremented(checked.usage, "docRefreshes")]
                /\ allowedCount' = Incremented(counted, "docRefreshes")
                /\ processDocs({})
                /\ refresh' = [pc |-> "fetching", via |-> "command"]
                /\ refreshRuns' = [refreshRuns EXCEPT ![today] = @ + 1]
  /\ UNCHANGED <<today, calls, opsStarted, readFailures>>
  /\ UNCHANGED <<cacheVars, panelVars, errorVars, serviceVars, webviewVars, boundaryVars>>

\* handleRefreshDocs(), on the webview's 'refreshDocs' message, up to
\* `await this.docDiffer.processDocs()`
HandleRefreshDocs ==
  /\ RefreshRequest(~isProcessing)
  /\ panel = "open"
  /\ IF isProcessing
     THEN /\ posted' = PostMessage([status |-> "already processing", id |-> 0])
          /\ UNCHANGED <<isProcessing, docsVars, refresh, refreshRuns>>
     ELSE /\ isProcessing' = TRUE
          /\ posted' = PostMessage([status |-> "refreshing", id |-> 0])
          /\ processDocs({})
          /\ refresh' = [pc |-> "fetching", via |-> "webview"]
          /\ refreshRuns' = [refreshRuns EXCEPT ![today] = @ + 1]
  /\ UNCHANGED <<panel, messageHistory, request, nextId, rejected>>
  /\ UNCHANGED <<storageVars, cacheVars, errorVars, serviceVars, webviewVars, boundaryVars>>

\* processDocs has returned: getDocsForChroma(), updateCollection(docs), then
\* the success messages, or the error messages of the catch; handleRefreshDocs
\* clears the flag in `finally` (the command reports with notifications: the
\* sendRefreshResult / sendRefreshError it calls are not defined in
\* src/webview-panel.js)
RefreshUpdate(ok) ==
  /\ refresh.pc = "fetching"
  /\ procPc = "idle"
  /\ chromaDocs' = [returned |-> TRUE, docs |-> getDocsForChroma(previousDocs)]
  /\ IF collection THEN updateCollection(ok) ELSE UNCHANGED cacheVars
  /\ IF refresh.via = "webview"
     THEN /\ isProcessing' = FALSE
          /\ posted' =
               IF panel # "open" THEN posted
               ELSE IF collection /\ ok
               THEN posted \o <<[status |-> "refreshed", id |-> 0],
                                [status |-> "info", id |-> 0]>>
               ELSE posted \o <<[status |-> "refresh error", id |-> 0],
                                [status |-> "error", id |-> 0]>>
     ELSE UNCHANGED <<isProcessing, posted>>
  /\ refresh' = NoRefresh
  /\ UNCHANGED <<docsFile, previousDocs, procPc, procSources, fetched, lastResult,
                 prevBefore, lastLatest>>
  /\ UNCHANGED <<panel, messageHistory, request, nextId, rejected>>
  /\ UNCHANGED <<refreshRuns, refreshCalls>>
  /\ UNCHANGED <<storageVars, errorVars, serviceVars, webviewVars, boundaryVars>>

RefreshNext ==
  \/ NextDay
  \/ CreateOrShow
  \/ Dispose
  \/ \E ok \in BOOLEAN : InitializeCollection(ok)
  \/ RefreshDocsCommand
  \/ HandleRefreshDocs
  \/ \E i \in SourceIdx, ok \in BOOLEAN, page \in Pages : FetchLatestDocs(i, ok, page)
  \/ ProcessDocsFinish
  \/ \E ok \in BOOLEAN : RefreshUpdate(ok)

\* the two users of WebviewPanel.isProcessing side by side: chat queries and
\* the refreshes asked for by the webview, while the panel is open (the
\* queries are those of the webview's askAi, every editor state and query text
\* is new, and the pages of a refresh cannot be fetched)
ProcessingNext ==
  \/ CreateOrShow
  \/ \E e \in {"none", "new"} : HandleAiQuery("query", EditorKey(e))
  \/ \E initOk \in BOOLEAN : AiFindDocs(QueryText("new"), initOk)
  \/ AiDocsFound
  \/ \E initOk \in BOOLEAN, ok \in BOOLEAN : AiRespond(initOk, ok)
  \/ \E ok \in BOOLEAN : InitializeCollection(ok)
  \/ \E ok \in BOOLEAN : QueryEnd(ok)
  \/ HandleRefreshDocs
  \/ \E i \in SourceIdx, page \in Pages : FetchLatestDocs(i, FALSE, page)
  \/ ProcessDocsFinish
  \/ \E ok \in BOOLEAN : RefreshUpdate(ok)

-----------------------------------------------------------------------------
(* ErrorHandler and TelemetryService *)

\* the values of error.code tried: the six the handler knows, another one, none
ErrorCodes ==
  {"NETWORK_ERROR", "API_LIMIT_EXCEEDED", "INVALID_DOCUMENT", "TEMPORARY_FAILURE",
   "CRITICAL_ERROR", "EXTENSION_FAILURE", "ENOENT", "undefined"}

NotHandling == [active |-> FALSE]
NotHandled == [returned |-> FALSE]

\* the if / else-if chain on error.code
UserMessage(code) ==
  IF code = "NETWORK_ERROR"
  THEN "Network error. Please check your connection and try again."
  ELSE IF code = "API_LIMIT_EXCEEDED"
  THEN "You've reached your API usage limit. Please try again later or upgrade your plan."
  ELSE IF code = "INVALID_DOCUMENT"
  THEN "The document format is not supported. Please try with a different file."
  ELSE "An error occurred. Please try again."

\* only network errors are retried
ShouldRetryNetworkOnly(code) == code = "NETWORK_ERROR"

\* ['NETWORK_ERROR', 'TEMPORARY_FAILURE'].includes(error.code)
ShouldRetry(code) == code \in {"NETWORK_ERROR", "TEMPORARY_FAILURE"}

\* ['CRITICAL_ERROR', 'EXTENSION_FAILURE'].includes(error.code)
IsFatal(code) == code \in {"CRITICAL_ERROR", "EXTENSION_FAILURE"}

\* the object handleError returns (with the code it was given)
Classification(code) ==
  [returned |-> TRUE, code |-> code, userMessage |-> UserMessage(code),
   shouldRetry |-> ShouldRetry(code), isFatal |-> IsFatal(code)]

ErrorInit ==
  /\ telemetryConfig = TRUE
  /\ telemetryEnabled = TRUE
  /\ telemetryLog = << >>
  /\ handling = NotHandling
  /\ handled = NotHandled
  /\ errorCount = 0
  /\ optIn = [shown |-> FALSE, open |-> FALSE, chosen |-> FALSE, prompts |-> 0]

\* the user changes the telemetry setting (settings editor, or saveSettings)
SetTelemetry(enabled) ==
  /\ telemetryConfig # enabled
  /\ telemetryConfig' = enabled
  /\ optIn' = [optIn EXCEPT !.chosen = @ \/ enabled]
  /\ UNCHANGED <<telemetryEnabled, telemetryLog, handling, handled, errorCount>>
  /\ UNCHANGED notError

\* the value read at construction is used, the setting is not read again
isEnabledCached == telemetryEnabled

\* isEnabled(): this.telemetryEnabled = this.getTelemetrySettings(), returned
isEnabled == telemetryConfig

\* handleError(error, context) up to `await this.telemetryService.logError(...)`;
\* isEnabled() re-reads the setting, logError writes the code (or UNKNOWN_ERROR);
\* with telemetry off the call returns at once
handleError(code) ==
  /\ ~handling.active
  /\ errorCount < MaxErrors
  /\ errorCount' = errorCount + 1
  /\ telemetryEnabled' = isEnabled
  /\ IF isEnabled
     THEN /\ telemetryLog' = Append(telemetryLog,
                                    IF code = "undefined" THEN "UNKNOWN_ERROR" ELSE code)
          /\ handling' = [active |-> TRUE, code |-> code]
          /\ UNCHANGED handled
     ELSE /\ handled' = Classification(code)
          /\ UNCHANGED <<telemetryLog, handling>>
  /\ UNCHANGED <<telemetryConfig, optIn>>

HandleErrorBegin(code) == handleError(code) /\ UNCHANGED notError

\* handleError after the await: build the message and the classification
handleErrorReturn ==
  /\ handling.active
  /\ handled' = Classification(handling.code)
  /\ handling' = NotHandling
  /\ UNCHANGED <<telemetryConfig, telemetryEnabled, telemetryLog, errorCount, optIn>>

HandleErrorReturn == handleErrorReturn /\ UNCHANGED notError

\* logEvent(eventName), also reached through logFeatureUsage,
\* logUpgradePromptShown and logUpgradePromptClicked: if (!isEnabled()) return
LogEvent(eventName) ==
  /\ Len(telemetryLog) < errorCount + MaxEvents
  /\ telemetryEnabled' = isEnabled
  /\ telemetryLog' = IF isEnabled THEN Append(telemetryLog, eventName) ELSE telemetryLog
  /\ UNCHANGED <<telemetryConfig, handling, handled, errorCount, optIn>>
  /\ UNCHANGED notError

\* activate() reaches the first-run prompt: shown unless globalState says it was
Activate ==
  /\ ~optIn.shown
  /\ optIn.prompts < MaxPrompts
  /\ optIn' = [optIn EXCEPT !.open = TRUE, !.prompts = @ + 1]
  /\ UNCHANGED <<telemetryConfig, telemetryEnabled, telemetryLog, handling, handled,
                 errorCount>>
  /\ UNCHANGED notError

\* the prompt is answered ("Enable", "Disable") or dismissed ("none"): the
\* setting is updated on a choice, telemetryOptInShown is set in every case
AnswerPrompt(choice) ==
  /\ optIn.open
  /\ telemetryConfig' = IF choice = "Enable" THEN TRUE
                        ELSE IF choice = "Disable" THEN FALSE
                        ELSE telemetryConfig
  /\ optIn' = [optIn EXCEPT !.shown = TRUE, !.open = FALSE,
                            !.chosen = @ \/ choice = "Enable"]
  /\ UNCHANGED <<telemetryEnabled, telemetryLog, handling, handled, errorCount>>
  /\ UNCHANGED notError

ErrorNext ==
  \/ \E enabled \in BOOLEAN : SetTelemetry(enabled)
  \/ \E code \in ErrorCodes : HandleErrorBegin(code)
  \/ HandleErrorReturn

\* TelemetryService under every caller: the log calls, the setting, the prompt
TelemetryNext ==
  \/ \E enabled \in BOOLEAN : SetTelemetry(enabled)
  \/ \E code \in {"NETWORK_ERROR", "undefined"} : HandleErrorBegin(code)
  \/ HandleErrorReturn
  \/ \E eventName \in {"feature_used", "upgrade_prompt_shown",
                        "upgrade_prompt_clicked"} : LogEvent(eventName)
  \/ Activate
  \/ \E choice \in {"Enable", "Disable", "none"} : AnswerPrompt(choice)

-----------------------------------------------------------------------------
(* ErrorHandler.createErrorBoundary *)

BoundaryInit ==
  boundary = [pc |-> "idle", args |-> 0, invokedWith |-> 0, invocations |-> 0,
              calls |-> 0, choice |-> "none", result |-> "none"]

\* the wrapper is called: `return await fn(...args)` invokes fn
BoundaryCall(args) ==
  /\ boundary.pc \in {"idle", "returned"}
  /\ boundary.calls < MaxBoundaryCalls
  /\ boundary' = [pc |-> "fn", args |-> args, invokedWith |-> args, invocations |-> 1,
                  calls |-> boundary.calls + 1, choice |-> "none", result |-> "none"]
  /\ UNCHANGED notBoundary

\* fn returns: the wrapper returns fn's result
BoundaryFnReturns ==
  /\ boundary.pc = "fn"
  /\ boundary' = [boundary EXCEPT !.pc = "returned", !.result = "value"]
  /\ UNCHANGED notBoundary

\* fn throws an error with this code: catch, `await this.handleError(...)`
BoundaryFnThrows(code) ==
  /\ boundary.pc = "fn"
  /\ handleError(code)
  /\ boundary' = [boundary EXCEPT !.pc = "handleError"]
  /\ UNCHANGED <<docsVars, storageVars, cacheVars, panelVars, refreshVars, serviceVars,
                 webviewVars>>

\* every non-fatal error is followed by the Retry prompt
offersRetryAlways(classification) == TRUE

\* if (shouldRetry) { ... showWarningMessage(userMessage, 'Retry') }
offersRetry(classification) == classification.shouldRetry

\* handleError has returned: a fatal error shows the reload prompt, a
\* retryable one the Retry prompt, any other returns null
BoundaryHandled ==
  /\ boundary.pc = "handleError"
  /\ IF handling.active THEN handleErrorReturn ELSE UNCHANGED errorVars
  /\ boundary' = IF handled'.isFatal THEN [boundary EXCEPT !.pc = "reloadPrompt"]
                 ELSE IF offersRetry(handled') THEN [boundary EXCEPT !.pc = "retryPrompt"]
                 ELSE [boundary EXCEPT !.pc = "returned", !.result = "null"]
  /\ UNCHANGED <<docsVars, storageVars, cacheVars, panelVars, refreshVars, serviceVars,
                 webviewVars>>

\* the reload prompt is answered or dismissed; the wrapper returns null
BoundaryReloadAnswered(choice) ==
  /\ boundary.pc = "reloadPrompt"
  /\ boundary' = [boundary EXCEPT !.pc = "returned", !.choice = choice, !.result = "null"]
  /\ UNCHANGED notBoundary

\* the Retry prompt is answered or dismissed: on Retry a new wrapper of fn is
\* called with the same arguments and its result returned, otherwise null
BoundaryRetryAnswered(choice) ==
  /\ boundary.pc = "retryPrompt"
  /\ boundary' = IF choice = "Retry"
                 THEN [boundary EXCEPT !.pc = "fn", !.choice = choice,
                                       !.invokedWith = boundary.args,
                                       !.invocations = @ + 1]
                 ELSE [boundary EXCEPT !.pc = "returned", !.choice = choice,
                                       !.result = "null"]
  /\ UNCHANGED notBoundary

BoundaryNext ==
  \/ \E enabled \in BOOLEAN : SetTelemetry(enabled)
  \/ \E args \in 1..2 : BoundaryCall(args)
  \/ BoundaryFnReturns
  \/ \E code \in ErrorCodes : BoundaryFnThrows(code)
  \/ BoundaryHandled
  \/ \E choice \in {"Reload Window", "none"} : BoundaryReloadAnswered(choice)
  \/ \E choice \in {"Retry", "none"} : BoundaryRetryAnswered(choice)

-----------------------------------------------------------------------------
(* DocumentationService: combinedSearch and getDocumentation *)

\* the four lookups of combinedSearch, in the order of its `sources` array
SearchSources == <<"MDN", "npm", "PyPI", "Stack Overflow">>

\* results.filter(r => r.status === 'fulfilled'): a value with an error field
\* is kept
validResultsFulfilled(settled) ==
  LET kept == SelectSeq(<<1, 2, 3, 4>>, LAMBDA i : settled[i] \in {"fulfilled", "error"})
  IN [j \in DOMAIN kept |-> SearchSources[kept[j]]]

\* results.filter(r => r.status === 'fulfilled' && r.value && !r.value.error)
\*        .map(r => r.value)
validResults(settled) ==
  LET kept == SelectSeq(<<1, 2, 3, 4>>, LAMBDA i : settled[i] = "fulfilled")
  IN [j \in DOMAIN kept |-> SearchSources[kept[j]]]

\* trim(): the query without its leading and trailing blanks
trim(rawQuery) ==
  LET inked == {i \in DOMAIN rawQuery : rawQuery[i] # " "}
  IN IF inked = {} THEN << >>
     ELSE SubSeq(rawQuery, CHOOSE i \in inked : \A j \in inked : i <= j,
                        CHOOSE i \in inked : \A j \in inked : j <= i)

\* `${type}:${query}` after type = type || 'auto' and query = query.trim()
cacheKey(type, rawQuery) ==
  <<IF type = "undefined" THEN "auto" ELSE type, trim(rawQuery)>>

\* the arguments getDocumentation is called with
DocTypes == {"undefined", "auto", "npm"}
DocQueries == {<< >>, <<" ">>, <<"a">>, <<" ", "a">>, <<"a", " ">>}
CacheKeys == {cacheKey(t, q) : t \in DocTypes, q \in DocQueries} \ {cacheKey(t, <<>>) : t \in DocTypes}

\* this.cacheTTL = 3600000, one hour in milliseconds
cacheTTL == 3600000

\* an entry counts up to and including cacheTTL milliseconds after it was stored
isFreshInclusive(entry) == entry.data # 0 /\ serviceNow - entry.timestamp <= cacheTTL

\* this.cache[cacheKey] && Date.now() - this.cache[cacheKey].timestamp < this.cacheTTL
isFresh(entry) == entry.data # 0 /\ serviceNow - entry.timestamp < cacheTTL

GetSlots == 1..MaxGets
NoGet == [pc |-> "idle", key |-> <<"none", << >> >>, saw |-> {}, joined |-> 0,
          result |-> 0, error |-> "none"]

ServiceInit ==
  /\ search = [pc |-> "idle", settled |-> [i \in 1..4 |-> "pending"],
               results |-> << >>, error |-> "none"]
  /\ serviceCache = [k \in CacheKeys |-> [data |-> 0, timestamp |-> 0]]
  /\ serviceNow = 0
  /\ pendingRequests = [k \in CacheKeys |-> 0]
  /\ fetches = << >>
  /\ getCalls = [c \in GetSlots |-> NoGet]

\* combinedSearch up to `await Promise.allSettled(sources)`: the four fetches
\* are called one after the other with no await in between
CombinedSearchBegin ==
  /\ search.pc # "waiting"
  /\ search' = [pc |-> "waiting", settled |-> [i \in 1..4 |-> "pending"],
                results |-> << >>, error |-> "none"]
  /\ UNCHANGED <<serviceCache, serviceNow, pendingRequests, fetches, getCalls>>
  /\ UNCHANGED notService

\* one lookup settles: fulfilled with documentation, fulfilled with an object
\* that has an error field, or rejected
LookupSettles(i, outcome) ==
  /\ search.pc = "waiting"
  /\ search.settled[i] = "pending"
  /\ search' = [search EXCEPT !.settled[i] = outcome]
  /\ UNCHANGED <<serviceCache, serviceNow, pendingRequests, fetches, getCalls>>
  /\ UNCHANGED notService

\* combinedSearch after allSettled resolved: filter, then one of two objects
CombinedSearchReturn ==
  /\ search.pc = "waiting"
  /\ \A i \in 1..4 : search.settled[i] # "pending"
  /\ LET valid == validResults(search.settled)
     IN search' = [search EXCEPT
                     !.pc = "returned",
                     !.results = valid,
                     !.error = IF Len(valid) > 0 THEN "none"
                               ELSE "No documentation found across all sources"]
  /\ UNCHANGED <<serviceCache, serviceNow, pendingRequests, fetches, getCalls>>
  /\ UNCHANGED notService

SearchNext ==
  \/ CombinedSearchBegin
  \/ \E i \in 1..4, outcome \in {"fulfilled", "error", "rejected"} :
       LookupSettles(i, outcome)
  \/ CombinedSearchReturn

\* no look at this.pendingRequests: every cache miss starts a fetch
pendingRequestNever(key) == 0

\* if (this.pendingRequests[cacheKey]) return this.pendingRequests[cacheKey]
pendingRequest(key) == pendingRequests[key]

\* getDocumentation(query, type) up to its first await: the empty-query
\* return, the cache hit, the join of a pending request, or a new fetch
GetDocumentation(c, type, rawQuery) ==
  /\ getCalls[c].pc = "idle"
  /\ LET key == cacheKey(type, rawQuery)
         inFlight == {f \in DOMAIN fetches : fetches[f].key = key /\ ~fetches[f].done}
     IN IF trim(rawQuery) = << >>
        THEN /\ getCalls' = [getCalls EXCEPT ![c] =
                  [NoGet EXCEPT !.pc = "returned", !.error = "Query cannot be empty"]]
             /\ UNCHANGED <<pendingRequests, fetches>>
        ELSE IF isFresh(serviceCache[key])
        THEN /\ getCalls' = [getCalls EXCEPT ![c] =
                  [NoGet EXCEPT !.pc = "returned", !.key = key, !.saw = inFlight,
                                !.result = serviceCache[key].data]]
             /\ UNCHANGED <<pendingRequests, fetches>>
        ELSE IF pendingRequest(key) # 0
        THEN /\ getCalls' = [getCalls EXCEPT ![c] =
                  [NoGet EXCEPT !.pc = "waiting", !.key = key, !.saw = inFlight,
                                !.joined = pendingRequest(key)]]
             /\ UNCHANGED <<pendingRequests, fetches>>
        ELSE /\ Len(fetches) < MaxFetches
             /\ fetches' = Append(fetches, [key |-> key, done |-> FALSE, threw |-> FALSE])
             /\ pendingRequests' = [pendingRequests EXCEPT ![key] = Len(fetches) + 1]
             /\ getCalls' = [getCalls EXCEPT ![c] =
                  [NoGet EXCEPT !.pc = "waiting", !.key = key, !.saw = inFlight,
                                !.joined = Len(fetches) + 1]]
  /\ UNCHANGED <<search, serviceCache, serviceNow>>
  /\ UNCHANGED notService

\* the pending request is deleted only when the fetch returned
deletesOnReturn(threw) == ~threw

\* try { ... } finally { delete this.pendingRequests[cacheKey] }
deletesPending(threw) == TRUE

\* the awaited fetch returns or throws: a result is cached with the time of
\* the store, a throw skips the store; then `finally` runs
FetchSettles(f, threw) ==
  /\ f \in DOMAIN fetches
  /\ ~fetches[f].done
  /\ fetches' = [fetches EXCEPT ![f].done = TRUE, ![f].threw = threw]
  /\ serviceCache' = IF threw THEN serviceCache
                     ELSE [serviceCache EXCEPT ![fetches[f].key] =
                             [data |-> f, timestamp |-> serviceNow]]
  /\ pendingRequests' = IF deletesPending(threw)
                        THEN [pendingRequests EXCEPT ![fetches[f].key] = 0]
                        ELSE pendingRequests
  /\ UNCHANGED <<search, serviceNow, getCalls>>
  /\ UNCHANGED notService

\* a caller's promise settles as the promise of the fetch it was given does:
\* with the fetch's result, or with what the fetch threw
GetDocumentationReturn(c) ==
  /\ getCalls[c].pc = "waiting"
  /\ fetches[getCalls[c].joined].done
  /\ getCalls' = [getCalls EXCEPT
       ![c].pc = IF fetches[getCalls[c].joined].threw THEN "threw" ELSE "returned",
       ![c].result = getCalls[c].joined]
  /\ UNCHANGED <<search, serviceCache, serviceNow, pendingRequests, fetches>>
  /\ UNCHANGED notService

\* time passes: a millisecond less than cacheTTL, or cacheTTL
Tick(elapsed) ==
  /\ serviceNow + elapsed <= MaxPeriods * cacheTTL
  /\ serviceNow' = serviceNow + elapsed
  /\ UNCHANGED <<search, serviceCache, pendingRequests, fetches, getCalls>>
  /\ UNCHANGED notService

ServiceNext ==
  \/ \E c \in GetSlots, type \in DocTypes, rawQuery \in DocQueries :
       GetDocumentation(c, type, rawQuery)
  \/ \E f \in 1..MaxFetches, threw \in BOOLEAN : FetchSettles(f, threw)
  \/ \E c \in GetSlots : GetDocumentationReturn(c)
  \/ \E elapsed \in {cacheTTL - 1, cacheTTL} : Tick(elapsed)

-----------------------------------------------------------------------------
(* The chat webview: sendMessage and the 'aiResponse' listener *)

WebviewInit == webview = [isProcessing |-> FALSE, asked |-> 0, delivered |-> 0]

\* sendMessage(): `if (text && !state.isProcessing)` set the flag, post askAi
SendMessage ==
  /\ panel = "open"
  /\ ~webview.isProcessing
  /\ webview.asked < MaxQueries
  /\ webview' = [webview EXCEPT !.isProcessing = TRUE, !.asked = @ + 1]
  /\ UNCHANGED <<docsVars, storageVars, cacheVars, panelVars, errorVars, refreshVars,
                 serviceVars, boundaryVars>>

\* the extension's message router receives an askAi and calls handleAiQuery
ReceiveAskAi(editor) ==
  /\ webview.asked > nextId
  /\ HandleAiQuery("query", editor)

\* window's message listener, case "aiResponse": whatever the status, the
\* handler ends with state.isProcessing = false
ReceiveAiResponse ==
  /\ webview.delivered < Len(posted)
  /\ webview' = [webview EXCEPT !.delivered = @ + 1, !.isProcessing = FALSE]
  /\ UNCHANGED <<docsVars, storageVars, cacheVars, panelVars, errorVars, refreshVars,
                 serviceVars, boundaryVars>>

WebviewNext ==
  \/ CreateOrShow
  \/ SendMessage
  \/ \E e \in EditorStates : ReceiveAskAi(EditorKey(e))
  \/ ReceiveAiResponse
  \/ \E t \in QueryTexts, initOk \in BOOLEAN : AiFindDocs(QueryText(t), initOk)
  \/ AiDocsFound
  \/ \E initOk \in BOOLEAN, ok \in BOOLEAN : AiRespond(initOk, ok)
  \/ \E ok \in BOOLEAN : InitializeCollection(ok)
  \/ \E ok \in BOOLEAN : QueryEnd(ok)

-----------------------------------------------------------------------------
(* Specifications: one per object; the other objects stay as constructed *)

Init ==
  /\ DocsInit /\ StorageInit /\ CacheInit /\ PanelInit /\ ErrorInit /\ RefreshInit
  /\ ServiceInit /\ WebviewInit /\ BoundaryInit

SpecDocs == Init /\ [][DocsNext]_vars
SpecStorage == Init /\ [][StorageNext]_vars
SpecPaywall == Init /\ [][PaywallNext]_vars
SpecCache == Init /\ [][CacheNext]_vars
SpecPanel == Init /\ [][PanelNext]_vars
SpecError == Init /\ [][ErrorNext]_vars
SpecTelemetry == Init /\ [][TelemetryNext]_vars
SpecSearch == Init /\ [][SearchNext]_vars
SpecService == Init /\ [][ServiceNext]_vars
SpecWebview == Init /\ [][WebviewNext]_vars
SpecBoundary == Init /\ [][BoundaryNext]_vars
SpecProcessing == Init /\ [][ProcessingNext]_vars

SpecRefresh == Init /\ [][RefreshNext]_vars

-----------------------------------------------------------------------------
(* Properties of DocDiffer, checked under SpecDocs *)

ProcessDocsSucceeded == lastResult.returned /\ lastResult.success

\* C1: findDifferences(B) against previous snapshot A returns newDocs with exactly
\* the keys of B absent from A, removedDocs with exactly the keys of A absent from
\* B, updatedDocs with exactly the keys in both whose content differs, and the
\* three counts are the sizes of those sets.
C1_DiffIsSetDifference ==
  ProcessDocsSucceeded =>
    LET d == lastResult.differences
        A == prevBefore
        B == lastLatest
    IN /\ DOMAIN d.newDocs = { k \in DOMAIN B : k \notin DOMAIN A }
       /\ DOMAIN d.removedDocs = { k \in DOMAIN A : k \notin DOMAIN B }
       /\ DOMAIN d.updatedDocs =
            { k \in (DOMAIN A) \cap (DOMAIN B) : A[k].content # B[k].content }
       /\ d.newCount = Cardinality(DOMAIN d.newDocs)
       /\ d.updatedCount = Cardinality(DOMAIN d.updatedDocs)
       /\ d.removedCount = Cardinality(DOMAIN d.removedDocs)
       /\ (A = EmptyDocs /\ B = EmptyDocs =>
             d.newCount = 0 /\ d.updatedCount = 0 /\ d.removedCount = 0)
       /\ ((DOMAIN A) \cap (DOMAIN B) = {} =>
             /\ DOMAIN d.newDocs = DOMAIN B
             /\ DOMAIN d.removedDocs = DOMAIN A
             /\ d.updatedCount = 0)

\* a run that found one entry updated and another one removed
C1_Witness ==
  /\ ProcessDocsSucceeded
  /\ lastResult.differences.updatedCount = 1
  /\ lastResult.differences.removedCount = 1

\* C2: after processDocs succeeds, reloading the persisted snapshot yields a
\* mapping with every key of the latest fetch and without any key of the previous
\* snapshot that the latest fetch no longer reports.
C2_RoundTrip ==
  ProcessDocsSucceeded =>
    LET reloaded == loadPreviousDocs(docsFile)
    IN /\ \A k \in DOMAIN lastLatest : k \in DOMAIN reloaded
       /\ \A k \in DOMAIN prevBefore :
            k \notin DOMAIN lastLatest => k \notin DOMAIN reloaded

\* a successful run whose fetch reported one key and dropped another
C2_Witness ==
  /\ ProcessDocsSucceeded
  /\ lastLatest # EmptyDocs
  /\ \E k \in DOMAIN prevBefore : k \notin DOMAIN lastLatest
  /\ docsFile.exists

\* the sources of the last run whose fetch threw
FailedSources == { i \in procSources : fetched[i].settled /\ fetched[i].failed }

ProcessDocsReturned == procPc = "idle" /\ lastResult.returned

UpperCaseOf == [nextjs |-> "NEXTJS", tailwind |-> "TAILWIND"]

\* C10: for every snapshot entry with type t, title s and content c,
\* getDocsForChroma returns an object with key uppercase(t) + ': ' + s mapped to c,
\* and the object has no key that does not come from a snapshot entry.
C10_ChromaDocs ==
  chromaDocs.returned =>
    LET out == chromaDocs.docs
    IN /\ \A k \in DOMAIN previousDocs :
            LET doc == previousDocs[k]
                key == <<UpperCaseOf[doc.type], doc.title>>
            IN key \in DOMAIN out /\ out[key] = doc.content
       /\ \A key \in DOMAIN out :
            \E k \in DOMAIN previousDocs :
              key = <<UpperCaseOf[previousDocs[k].type], previousDocs[k].title>>

\* getDocsForChroma returned the formatted docs of a snapshot holding both sources
C10_Witness ==
  /\ chromaDocs.returned
  /\ \E k1, k2 \in DOMAIN previousDocs : k1[1] = "nextjs" /\ k2[1] = "tailwind"
  /\ Cardinality(DOMAIN chromaDocs.docs) >= 2

-----------------------------------------------------------------------------
(* Properties of StorageManager, checked under SpecStorage *)

\* C3: the usage counters are reset to zero exactly once per calendar-day
\* boundary: getDailyUsage takes its reset branch at most once on any day (the
\* first call after the date changed), and never again while the date stays the
\* same.
C3_ResetOncePerDay ==
  \A d \in Days : resetCount[d] <= 1

\* C4: outside the daily reset the persisted completions and docRefreshes
\* counters never decrease, whatever calls run and however they interleave,
\* also when reading the profile file fails.
C4_CountersNeverDecrease ==
  [][ \/ resetCount' # resetCount
      \/ /\ userFile'.usage.completions >= userFile.usage.completions
         /\ userFile'.usage.docRefreshes >= userFile.usage.docRefreshes ]_vars

-----------------------------------------------------------------------------
(* Properties of PaywallManager *)

\* C11: on the free plan at most 50 checkAndIncrementUsage('completion') calls
\* return allowed in one day, and the persisted completions counter never
\* exceeds 50.
C11_FreeCompletionsQuota ==
  (userFile.plan = "free" /\ readFailures = 0) =>
    /\ userFile.usage.completions <= usageQuotas.free.completionsPerDay.n
    /\ allowedCount.completions <= usageQuotas.free.completionsPerDay.n

\* C13: on the pro and team plans a checkAndIncrementUsage('completion') call is
\* never denied at the quota test, and when it returns it has raised the
\* persisted completions counter by one.
C13_PaidPlanUnlimited ==
  [][ \A c \in CallSlots :
        (/\ calls[c].op = "checkAndIncrementUsage"
         /\ userFile.plan \in {"pro", "team"}
         /\ calls[c].userData.plan = userFile.plan
         /\ readFailures' = 0) =>
          /\ (calls[c].pc = "ciu_quota" /\ calls[c].arg = "completion"
                 /\ calls'[c].pc # "ciu_quota") => calls'[c].pc = "idu_call"
          /\ (calls[c].pc = "idu_save" /\ calls[c].arg = "completions"
                 /\ calls'[c].pc = "idle") =>
                userFile'.usage.completions = userFile.usage.completions + 1 ]_vars

\* C19: once the overlapping checkAndIncrementUsage calls have returned, each
\* persisted counter equals the number of calls that returned allowed since the
\* last daily reset.
C19_NoLostIncrement ==
  (readFailures = 0 /\ \A c \in CallSlots : calls[c].pc = "idle") =>
    /\ userFile.usage.completions = allowedCount.completions
    /\ userFile.usage.docRefreshes = allowedCount.docRefreshes

-----------------------------------------------------------------------------
(* Properties of the documentation refresh *)

\* C12: at most one DocDiffer.processDocs run is begun by a refresh per day on
\* the free plan, and at most 24 on pro and team, whether the refreshDocs
\* command or the webview's Refresh Docs button asked for it.
C12_RefreshQuota ==
  \A d \in Days :
    refreshRuns[d] <= usageQuotas[userFile.plan].docRefreshesPerDay.n

-----------------------------------------------------------------------------
(* Properties of ContextExtractor *)

\* C5: after any sequence of insertions contextQueries holds at most 50 entries
\* and relevantDocs holds at most 30 entries.
C5_CachesBounded ==
  /\ Len(contextQueries) <= ContextCacheLimit
  /\ Len(relevantDocs) <= DocsCacheLimit

LimitOf(cache) == IF cache = "ctx" THEN ContextCacheLimit ELSE DocsCacheLimit

\* C6: an insertion that finds the cache over its threshold evicts exactly one
\* entry, the one that was inserted earliest among those present; an insertion
\* that finds the cache not over its threshold evicts nothing.
C6_EvictsEarliest ==
  lastStore.cache # "none" =>
    IF lastStore.sizeBefore > LimitOf(lastStore.cache)
    THEN /\ Cardinality(lastStore.deleted) = 1
         /\ lastStore.deleted = lastStore.earliest
    ELSE lastStore.deleted = {}

C6_Witness ==
  /\ lastStore.cache = "docs"
  /\ lastStore.sizeBefore > DocsCacheLimit
  /\ lastStore.deleted # {}
  /\ Len(contextQueries) > ContextCacheLimit

-----------------------------------------------------------------------------
(* Properties of WebviewPanel *)

\* C7: a handleAiQuery call made while isProcessing is true only posts the
\* 'still processing' info message: it appends nothing to messageHistory, leaves
\* isProcessing and the outstanding request as they are, and its query is never
\* taken up later.
C7_SecondQueryRejected ==
  [][ /\ (isProcessing /\ nextId' # nextId) =>
           /\ messageHistory' = messageHistory
           /\ isProcessing' = isProcessing
           /\ request' = request
           /\ cacheVars' = cacheVars
           /\ posted' = IF panel = "open"
                        THEN Append(posted, [status |-> "info", id |-> nextId'])
                        ELSE posted
      /\ \A id \in rejected' :
           /\ request'.id # id
           /\ \A i \in DOMAIN messageHistory' : messageHistory'[i].id # id ]_vars

\* a call was rejected, and the request that was outstanding then completed later
C7_Witness ==
  \E i, j \in DOMAIN posted :
    /\ i < j
    /\ posted[i].status = "info"
    /\ posted[i].id \in rejected
    /\ posted[j].status = "complete"
    /\ posted[j].id < posted[i].id

\* C17: isProcessing is never left true when no handleAiQuery or
\* handleRefreshDocs call is outstanding (so every call that sets the flag
\* clears it again, whatever happens to the operation or the panel).
C17_FlagCleared ==
  isProcessing => (request.pc # "none" \/ refresh.via = "webview")

-----------------------------------------------------------------------------
(* Properties of ErrorHandler *)

\* C9: handleError returns shouldRetry true exactly for NETWORK_ERROR and
\* TEMPORARY_FAILURE, isFatal true exactly for CRITICAL_ERROR and
\* EXTENSION_FAILURE, the network / quota / invalid-document message for
\* NETWORK_ERROR / API_LIMIT_EXCEEDED / INVALID_DOCUMENT and the generic message
\* for any other code, and never both shouldRetry and isFatal.
C9_Classification ==
  handled.returned =>
    /\ handled.shouldRetry <=>
         (handled.code = "NETWORK_ERROR" \/ handled.code = "TEMPORARY_FAILURE")
    /\ handled.isFatal <=>
         (handled.code = "CRITICAL_ERROR" \/ handled.code = "EXTENSION_FAILURE")
    /\ handled.userMessage =
         CASE handled.code = "NETWORK_ERROR" ->
                "Network error. Please check your connection and try again."
           [] handled.code = "API_LIMIT_EXCEEDED" ->
                "You've reached your API usage limit. Please try again later or upgrade your plan."
           [] handled.code = "INVALID_DOCUMENT" ->
                "The document format is not supported. Please try with a different file."
           [] OTHER -> "An error occurred. Please try again."
    /\ ~(handled.shouldRetry /\ handled.isFatal)

\* a TEMPORARY_FAILURE was handled with telemetry on, after an earlier error
C9_Witness ==
  /\ handled.returned
  /\ handled.code = "TEMPORARY_FAILURE"
  /\ handled.shouldRetry
  /\ Len(telemetryLog) = 2

-----------------------------------------------------------------------------
(* Properties of TelemetryService *)

\* C14: while the telemetryEnabled setting is false no log call emits a record,
\* and because the setting is re-read on every call a handleError call made
\* while the setting is true does log its error.
C14_TelemetryFollowsSetting ==
  [][ /\ ~telemetryConfig => telemetryLog' = telemetryLog
      /\ (telemetryConfig /\ errorCount' # errorCount) =>
           Len(telemetryLog') = Len(telemetryLog) + 1 ]_vars

\* the setting was switched off and on again, a call in between emitted nothing
\* (it only refreshed the cached value), and a later record was written
C14_Witness ==
  /\ telemetryConfig
  /\ optIn.chosen
  /\ errorCount = MaxErrors
  /\ Len(telemetryLog) = 1
  /\ handled.returned

\* C15: a telemetry record is logged only after the user has opted in (chose
\* Enable in the first-run prompt or enabled the setting), and the first-run
\* prompt is shown at most once.
C15_OptInOnly ==
  /\ telemetryLog # << >> => optIn.chosen
  /\ optIn.prompts <= 1

-----------------------------------------------------------------------------
(* Properties of DocumentationService *)

C20_OneFetchPerKey ==
  /\ \A k \in CacheKeys :
       Cardinality({f \in DOMAIN fetches : fetches[f].key = k /\ ~fetches[f].done}) <= 1
  /\ \A c \in GetSlots :
       (getCalls[c].pc \in {"returned", "threw"} /\ getCalls[c].saw # {}) =>
         getCalls[c].result \in getCalls[c].saw

\* three callers of one key (written with and without blanks, with and without
\* a type) overlapped, one fetch was made and all three received its result
C20_Witness ==
  /\ Len(fetches) = 1
  /\ \A c \in GetSlots : getCalls[c].pc = "returned" /\ getCalls[c].result = 1
  /\ Cardinality({c \in GetSlots : getCalls[c].saw = {1}}) = MaxGets - 1

-----------------------------------------------------------------------------
(* Properties of the chat webview *)

\* C18: from the moment the webview sends askAi until the final response
\* (status complete or error) to it has arrived, state.isProcessing is true,
\* so no askAi is sent while the extension is still processing one.
C18_WebviewGuardsAskAi ==
  LET finals == {i \in 1..webview.delivered : posted[i].status \in {"complete", "error"}}
  IN /\ webview.asked > Cardinality(finals) => webview.isProcessing
     /\ webview.asked - Cardinality(finals) <= 1

\* C21: a pending request is registered exactly while its fetch is in flight:
\* once the fetch has returned or thrown there is no entry for its key, and with
\* no fetch in flight pendingRequests is empty.
C21_PendingCleanedUp ==
  \A k \in CacheKeys :
    LET inFlight == {f \in DOMAIN fetches : fetches[f].key = k /\ ~fetches[f].done}
    IN IF inFlight = {} THEN pendingRequests[k] = 0
       ELSE pendingRequests[k] \in inFlight

\* a fetch threw, its callers were rejected, nothing is pending, and a later
\* call for the same key started a new fetch
C21_Witness ==
  /\ Len(fetches) = 2
  /\ fetches[1].done /\ fetches[1].threw
  /\ fetches[2].key = fetches[1].key /\ ~fetches[2].done
  /\ pendingRequests[fetches[1].key] = 2
  /\ \E c \in GetSlots : getCalls[c].pc = "threw"

\* C22: a call returns cached data at once, without a fetch, exactly when the
\* key has an entry stored less than cacheTTL ago; otherwise, unless it joins a
\* pending request, it starts a fetch whose result replaces the entry; a call
\* with an empty or blank query returns 'Query cannot be empty' and leaves
\* cache and pendingRequests as they were.
C22_CacheTTL ==
  [][ /\ \A c \in GetSlots :
           (getCalls[c].pc = "idle" /\ getCalls'[c].pc # "idle") =>
             IF getCalls'[c].key \in CacheKeys
             THEN LET e == serviceCache[getCalls'[c].key]
                      stored == e.data # 0 /\ serviceNow - e.timestamp < cacheTTL
                  IN /\ (getCalls'[c].pc = "returned") <=> stored
                     /\ stored => /\ getCalls'[c].result = e.data
                                  /\ fetches' = fetches
                     /\ (~stored /\ pendingRequests[getCalls'[c].key] = 0) =>
                          /\ Len(fetches') = Len(fetches) + 1
                          /\ fetches'[Len(fetches')].key = getCalls'[c].key
                     /\ getCalls'[c].error = "none"
             ELSE /\ getCalls'[c].pc = "returned"
                  /\ getCalls'[c].error = "Query cannot be empty"
                  /\ UNCHANGED <<serviceCache, pendingRequests, fetches>>
      /\ \A f \in DOMAIN fetches :
           (~fetches[f].done /\ fetches'[f].done /\ ~fetches'[f].threw) =>
             serviceCache'[fetches[f].key] = [data |-> f, timestamp |-> serviceNow]
    ]_vars

\* a call was served from the cache while the entry was younger than cacheTTL, a
\* call exactly cacheTTL after the store fetched again, and the second result
\* replaced the entry
C22_Witness ==
  /\ Len(fetches) = 2
  /\ fetches[2].key = fetches[1].key
  /\ fetches[2].done /\ ~fetches[2].threw
  /\ serviceCache[fetches[1].key] = [data |-> 2, timestamp |-> cacheTTL]
  /\ \E c \in GetSlots :
       getCalls[c].pc = "returned" /\ getCalls[c].joined = 0 /\ getCalls[c].result = 1

-----------------------------------------------------------------------------
(* Properties of createErrorBoundary *)

\* C23: the wrapper ends by returning, never by throwing: fn's result when fn
\* returned, null after a failure that is not retried; fn is invoked again,
\* with the same arguments, exactly when the error is retryable, not fatal,
\* and the user chose Retry.
C23_ErrorBoundary ==
  [][ /\ boundary'.pc \in {"idle", "fn", "handleError", "reloadPrompt", "retryPrompt",
                          "returned"}
      /\ (boundary.pc # "returned" /\ boundary'.pc = "returned") =>
           IF boundary.pc = "fn" THEN boundary'.result = "value"
           ELSE boundary'.result = "null"
      /\ (boundary.pc \notin {"idle", "returned"} /\ boundary'.pc = "fn"
          /\ boundary.pc # "fn") =>
           /\ ShouldRetry(handled.code) /\ ~IsFatal(handled.code)
           /\ boundary'.choice = "Retry"
           /\ boundary'.invokedWith = boundary.invokedWith
           /\ boundary'.invocations = boundary.invocations + 1
      /\ (boundary.pc \in {"handleError", "reloadPrompt", "retryPrompt"}
          /\ boundary'.pc = "returned") =>
           \/ ~ShouldRetry(handled'.code)
           \/ boundary'.choice # "Retry"
      /\ (boundary.pc = "retryPrompt" /\ boundary'.pc = "returned") =>
           boundary'.invocations = boundary.invocations
    ]_vars

\* fn failed with a retryable error, the user chose Retry, and the second
\* invocation returned
C23_Witness ==
  /\ boundary.pc = "returned"
  /\ boundary.result = "value"
  /\ boundary.invocations = 2
  /\ boundary.choice = "Retry"
  /\ handled.code = "TEMPORARY_FAILURE"

-----------------------------------------------------------------------------
(* Properties of the ContextExtractor's result cache *)

\* C24: once updateCollection has completed, no cached result that a call would
\* return was computed from the collection as it was before the update, also
\* when a query was in flight while the update ran.
C24_NoResultFromOldCollection ==
  \A key \in Range(relevantDocs) :
    (lastUpdated = "fresh") => key \notin docsInfo.fromOld

\* C25: a call whose key is cached reuses the result (the cache's time test
\* passes) exactly when that result was stored less than 5 minutes ago.
C25_ReuseWithinFiveMinutes ==
  \A key \in Range(relevantDocs) :
    (lastUpdated = "fresh") <=> key \in docsInfo.young

-----------------------------------------------------------------------------
(* Properties of the shared isProcessing flag *)

\* C26: a chat query and a refresh asked for by the webview are never both
\* executing; while a chat query is outstanding handleRefreshDocs does not
\* start processDocs, and while such a refresh is outstanding no handleAiQuery
\* call gets past the isProcessing test.
C26_SharedFlag ==
  [][ /\ ~(request'.pc # "none" /\ refresh'.via = "webview")
      /\ request.pc # "none" => ~(procPc = "idle" /\ procPc' = "fetching")
      /\ (refresh.via = "webview" /\ nextId' # nextId) =>
           /\ nextId' \in rejected'
           /\ request' = request
           /\ messageHistory' = messageHistory
    ]_vars

\* a refresh was turned away while a chat query was outstanding, and later a
\* chat query was turned away while a refresh was running
C26_Witness ==
  /\ refresh = [pc |-> "fetching", via |-> "webview"]
  /\ \E i \in DOMAIN posted : posted[i].status = "already processing"
  /\ posted # << >>
  /\ posted[Len(posted)] = StillProcessing(nextId)
  /\ nextId \in rejected

====
